---- MODULE Spec2Model ----
(***************************************************************************)
(* file-guardian: a Merkle tree over a batch of files, a content-addressed *)
(* file store keyed by the tree's root, and a TCP upload/download protocol *)
(* whose client verifies each downloaded file against the root.           *)
(*                                                                         *)
(* Byte strings are sequences of atoms.  An atom is a record [k, v]:       *)
(*   k = "h"  the 32 bytes of the digest of the byte string v,             *)
(*   k = "x"  the 64 ASCII bytes of the lower-case hex text of that digest,*)
(*   any other k: one raw byte named k (v is empty).                       *)
(* A digest is a function of the hashed bytes and nothing else, and two    *)
(* different byte strings never share a digest (collision-free hash).      *)
(***************************************************************************)
EXTENDS Integers, Sequences, FiniteSets, TLC

VARIABLES data, tree, call,      \* a tree as a value and a call of its API
          fs, puts, scall,       \* a FileStore, the batches stored, a call of its API
          failed,                \* the number of store_files calls an I/O error ended
          conns, sent,           \* the TCP connections, the batches the clients sent
          db                     \* the client's store directory and its last run

treeVars == <<data, tree, call>>
storeVars == <<fs, puts, scall, failed>>
netVars == <<conns, sent>>
vars == <<data, tree, call, fs, puts, scall, failed, conns, sent, db>>
notTreeVars == <<storeVars, netVars, db>>
notStoreVars == <<treeVars, netVars, db>>

(***************************************************************************)
(* Bounds of the model.                                                    *)
(***************************************************************************)
MaxLeaves == 5
MaxStoreLeaves == 3
MaxPuts == 2
MaxFailed == 1
MaxNetLeaves == 3
MaxConns == 2
MaxForged == 2
MaxPutLeaves == 2

(***************************************************************************)
(* Bytes, digests, results.                                                *)
(***************************************************************************)
Byte(n) == [k |-> n, v |-> <<>>]

\* The 8 big-endian bytes of the number n (usize and u64 are both 8 bytes
\* on the 64-bit targets the crates are built for).
to_be_bytes(n) == <<[k |-> "u64", v |-> [i \in 1..n |-> Byte("")]]>>

\* The number of bytes a byte string holds.
RECURSIVE ByteLen(_)
Width(a) ==
    CASE a.k = "h" -> 32
      [] a.k = "x" -> 2 * ByteLen(a.v)
      [] a.k = "u64" -> 8
      [] a.k \in {"upload", "download"} -> 10
      [] a.k = "torn" -> Len(a.v[2].v)
      [] OTHER -> 1
ByteLen(bytes) ==
    IF bytes = <<>> THEN 0 ELSE Width(Head(bytes)) + ByteLen(Tail(bytes))

Ok(x) == [tag |-> "Ok", val |-> x]
Err(e) == [tag |-> "Err", val |-> e]
Panic == [tag |-> "Panic", val |-> "index out of bounds"]

\* Sha256Hasher::hash: the digest of the whole input.
hash(bytes) == [k |-> "h", v |-> bytes]

\* MerkleTree::hash_nodes: the digest of left || right.
hash_nodes(left, right) == hash(<<left, right>>)

(***************************************************************************)
(* The blocks a batch is drawn from: two one-byte files, a 64-byte file    *)
(* that is the concatenation of two digests, a 32-byte file that is one    *)
(* digest.                                                                 *)
(***************************************************************************)
BlockA == <<Byte("1")>>
BlockB == <<Byte("2")>>
BlockDD == <<hash(BlockA), hash(BlockB)>>
BlockD == <<hash(BlockA)>>
BlockAA == <<hash(BlockA), hash(BlockA)>>
Blocks == {BlockA, BlockB, BlockDD, BlockD}

RECURSIVE SeqsUpTo(_, _)
SeqsUpTo(S, n) ==
    IF n = 0 THEN {<<>>}
    ELSE LET shorter == SeqsUpTo(S, n - 1)
         IN  shorter \cup {Append(s, x) : s \in {t \in shorter : Len(t) = n - 1}, x \in S}

Batches == SeqsUpTo(Blocks, MaxLeaves)

(***************************************************************************)
(* MerkleTree::new                                                         *)
(***************************************************************************)
chunks_self_pair(level) ==
    [c \in 1..((Len(level) + 1) \div 2) |->
        IF 2 * c <= Len(level)
        THEN hash_nodes(level[2 * c - 1], level[2 * c])
        ELSE hash_nodes(level[2 * c - 1], level[2 * c - 1])]

chunks_exact_pairs(level) ==
    [c \in 1..(Len(level) \div 2) |-> hash_nodes(level[2 * c - 1], level[2 * c])]

\* level.chunks(2).map(..): a chunk of two gives hash_nodes, a trailing chunk
\* of one gives the hash of that node alone.
next_level(level) ==
    [c \in 1..((Len(level) + 1) \div 2) |->
        IF 2 * c <= Len(level)
        THEN hash_nodes(level[2 * c - 1], level[2 * c])
        ELSE hash(<<level[2 * c - 1]>>)]

\* std::iter::successors: the first level, then next_level of each level
\* until a level of length 0 or 1 has been produced.
RECURSIVE successors(_)
successors(level) ==
    IF Len(level) \in {0, 1} THEN <<level>>
    ELSE <<level>> \o successors(next_level(level))

new_unchecked(blocks) ==
    Ok(successors([i \in 1..Len(blocks) |-> hash(blocks[i])]))

\* MerkleTree::new: no tree over no blocks.
new(blocks) ==
    IF blocks = <<>> THEN Err("EmptyData")
    ELSE Ok(successors([i \in 1..Len(blocks) |-> hash(blocks[i])]))

\* MerkleTree::root: the first digest of the last level, None if there is none.
root(levels) ==
    IF levels = <<>> \/ levels[Len(levels)] = <<>> THEN Err("None")
    ELSE Ok(levels[Len(levels)][1])

(***************************************************************************)
(* MerkleTree::proof.  Indices are 0-based as in the source; level[i] of   *)
(* the source is levels[k][i + 1] here.  Indexing a level past its end     *)
(* aborts the call (a panic).                                              *)
(***************************************************************************)
sibling_index(i) == IF i % 2 = 0 THEN i + 1 ELSE i - 1

RECURSIVE proof_fold(_, _, _, _)
proof_fold(levels, k, i, acc) ==
    IF k > Len(levels) - 1 THEN Ok(acc)
    ELSE IF sibling_index(i) >= Len(levels[k]) THEN Panic
    ELSE proof_fold(levels, k + 1, i \div 2,
                    Append(acc, levels[k][sibling_index(i) + 1]))

RECURSIVE proof_fold_self(_, _, _, _)
proof_fold_self(levels, k, i, acc) ==
    IF k > Len(levels) - 1 THEN Ok(acc)
    ELSE IF i >= Len(levels[k]) THEN Panic
    ELSE proof_fold_self(levels, k + 1, i \div 2, Append(acc, levels[k][i + 1]))

proof_own_node(levels, index) ==
    IF index >= Len(levels[1]) THEN Err("InvalidIndex")
    ELSE proof_fold_self(levels, 1, index, <<>>)

proof_past_end(levels, index) ==
    IF index > Len(levels[1]) THEN Err("InvalidIndex")
    ELSE proof_fold(levels, 1, index, <<>>)

proof(levels, index) ==
    IF index >= Len(levels[1]) THEN Err("InvalidIndex")
    ELSE proof_fold(levels, 1, index, <<>>)

(***************************************************************************)
(* MerkleTree::verify                                                      *)
(***************************************************************************)
RECURSIVE verify_fold(_, _, _, _)
verify_fold(i, h, siblings, k) ==
    IF k > Len(siblings) THEN h
    ELSE verify_fold(i \div 2,
                     IF i % 2 = 0 THEN hash_nodes(h, siblings[k])
                                  ELSE hash_nodes(siblings[k], h),
                     siblings, k + 1)

RECURSIVE verify_fold_siblings(_, _, _, _)
verify_fold_siblings(i, h, siblings, k) ==
    IF k > Len(siblings) THEN h
    ELSE verify_fold_siblings(i \div 2,
                     IF i % 2 = 0 THEN hash_nodes(siblings[k], siblings[k])
                                  ELSE hash_nodes(siblings[k], h),
                     siblings, k + 1)

verify_sibling_twice(index, block, rootHash, siblings) ==
    verify_fold_siblings(index, hash(block), siblings, 1) = rootHash

RECURSIVE Pow2(_)
Pow2(n) == IF n = 0 THEN 1 ELSE 2 * Pow2(n - 1)

verify_index_in_range(index, block, rootHash, siblings) ==
    /\ index < Pow2(Len(siblings))
    /\ verify_fold(index, hash(block), siblings, 1) = rootHash

verify(index, block, rootHash, siblings) ==
    verify_fold(index, hash(block), siblings, 1) = rootHash

(***************************************************************************)
(* The tree as a value: a batch is drawn, the tree is built over it once,  *)
(* then root, proof and verify are called on it with drawn arguments.      *)
(***************************************************************************)
NoCall == [op |-> "none", index |-> 0, block |-> <<>>, from |-> 0,
           siblings |-> <<>>, result |-> Err("none")]

MaxIndex == MaxLeaves + 1

IdleTree ==
    /\ data = <<>>
    /\ tree = Err("unbuilt")
    /\ call = NoCall

\* The client has not run: client_store does not exist.  file is
\* client_store/uploads.json: head holds the map whose JSON the file
\* starts with, if any, and len is the length of the file.
Some(x) == <<x>>
None == <<>>
NoFile == [exists |-> FALSE, head |-> <<>>, len |-> 0]
NoRun == [op |-> "none", root_hash |-> <<>>, file_name |-> "", index |-> None,
          uploads |-> <<>>]
NoDb == [dir |-> FALSE, file |-> NoFile, uploaded |-> {}, last |-> NoRun]
IdleDb == db = NoDb

InitTree ==
    /\ data \in Batches
    /\ tree = Err("unbuilt")
    /\ call = NoCall

Build ==
    /\ tree = Err("unbuilt")
    /\ tree' = new(data)
    /\ UNCHANGED <<data, call>>
    /\ UNCHANGED notTreeVars

CallRoot ==
    /\ tree.tag = "Ok"
    /\ call = NoCall
    /\ call' = [NoCall EXCEPT !.op = "root", !.result = root(tree.val)]
    /\ UNCHANGED <<data, tree>>
    /\ UNCHANGED notTreeVars

CallProof ==
    /\ tree.tag = "Ok"
    /\ call = NoCall
    /\ \E i \in 0..MaxIndex :
          call' = [NoCall EXCEPT !.op = "proof", !.index = i,
                                 !.result = proof(tree.val, i)]
    /\ UNCHANGED <<data, tree>>
    /\ UNCHANGED notTreeVars

\* verify(i, block, root, proof(j)) with the root and a proof of this tree.
CallVerify ==
    /\ tree.tag = "Ok"
    /\ call = NoCall
    /\ \E i \in 0..MaxIndex, j \in 0..(Len(data) - 1), b \in Blocks :
          LET p == proof(tree.val, j)
          IN  /\ p.tag = "Ok"
              /\ call' = [op |-> "verify", index |-> i, block |-> b, from |-> j,
                          siblings |-> p.val,
                          result |-> verify(i, b, root(tree.val).val, p.val)]
    /\ UNCHANGED <<data, tree>>
    /\ UNCHANGED notTreeVars

\* The call returns; the tree is a value no call changes.
Return ==
    /\ call # NoCall
    /\ call' = NoCall
    /\ UNCHANGED <<data, tree>>
    /\ UNCHANGED notTreeVars

NextTree == Build \/ CallRoot \/ CallProof \/ CallVerify \/ Return

(***************************************************************************)
(* FileStore.  The store's root directory holds one directory per root     *)
(* hash; fs.dirs are the directories, fs.files maps <<directory, file      *)
(* name>> to the file's bytes.                                             *)
(***************************************************************************)
\* hex::encode: the lower-case hex text of the bytes, two characters a byte.
hex_encode(bytes) == <<[k |-> "x", v |-> bytes]>>

bytes_to_hex_upper(digest) == <<[k |-> "X", v |-> <<digest>>]>>

\* utils::bytes_to_hex_string: format!("{:02x}", byte) over the 32 bytes of a
\* digest: lower-case hex text, two characters a byte.
bytes_to_hex_string(digest) == <<[k |-> "x", v |-> <<digest>>]>>

\* serde_json::to_string(&tree) and serde_json::from_str: the levels as JSON
\* text; text that is not the JSON of a tree does not parse.
to_json(levels) == <<[k |-> "json", v |-> levels]>>
from_json(text) ==
    IF Len(text) = 1 /\ text[1].k = "json" THEN Ok(text[1].v)
    ELSE Err("Corrupt")

\* FileStore::new: the store's root directory exists and is empty.
EmptyStore == [dirs |-> {}, files |-> <<>>]

create_dir_all(store, dir) == [store EXCEPT !.dirs = @ \cup {dir}]

fs_write_first_dir(store, dir, name, bytes) ==
    IF dir \notin store.dirs THEN Err("NotFound")
    ELSE LET d == CHOOSE x \in store.dirs : TRUE
         IN  Ok([store EXCEPT !.files = (<<d, name>> :> bytes) @@ @])

fs_write_new(store, dir, name, bytes) ==
    IF dir \notin store.dirs THEN Err("NotFound")
    ELSE IF <<dir, name>> \in DOMAIN store.files THEN Err("AlreadyExists")
    ELSE Ok([store EXCEPT !.files = (<<dir, name>> :> bytes) @@ @])

\* fs::write / File::create + write_all: the file is created or replaced.
\* Writing below a directory that does not exist fails.
fs_write(store, dir, name, bytes) ==
    IF dir \notin store.dirs THEN Err("NotFound")
    ELSE Ok([store EXCEPT !.files = (<<dir, name>> :> bytes) @@ @])

fs_read(store, dir, name) ==
    IF dir \in store.dirs /\ <<dir, name>> \in DOMAIN store.files
    THEN Ok(store.files[<<dir, name>>])
    ELSE Err("NotFound")

\* for (i, file_data) in files.iter().enumerate(): fs::write(dir/i, file_data)?
RECURSIVE write_files(_, _, _, _)
write_files(store, dir, files, i) ==
    IF i >= Len(files) THEN Ok(store)
    ELSE LET w == fs_write(store, dir, ToString(i), files[i + 1])
         IN  IF w.tag = "Ok" THEN write_files(w.val, dir, files, i + 1) ELSE w

\* FileStore::store_files: the store after the call and the call's result.
store_files(store, files) ==
    LET t == new(files)
    IN  IF t.tag # "Ok" THEN [fs |-> store, result |-> t]
        ELSE LET r == root(t.val)
             IN  IF r.tag # "Ok"
                 THEN [fs |-> store, result |-> Err("Root Hash could not be computed")]
                 ELSE LET root_hash == hex_encode(<<r.val>>)
                          made == create_dir_all(store, root_hash)
                          wrote == write_files(made, root_hash, files, 0)
                          json == fs_write(wrote.val, root_hash, "tree.json", to_json(t.val))
                      IN  IF wrote.tag # "Ok" THEN [fs |-> made, result |-> wrote]
                          ELSE IF json.tag # "Ok" THEN [fs |-> wrote.val, result |-> json]
                          ELSE [fs |-> json.val, result |-> Ok(root_hash)]

\* FileStore::store_files when its k-th file system call fails and `?` returns
\* the error: k = 0 is create_dir_all, k = i + 1 the write of file i, and
\* k = len + 1 the creation of tree.json.  What was written before stays.
store_files_failing(store, files, k) ==
    LET t == new(files)
    IN  IF t.tag # "Ok" THEN [fs |-> store, result |-> t]
        ELSE LET root_hash == hex_encode(<<root(t.val).val>>)
                 made == create_dir_all(store, root_hash)
             IN  IF k = 0 THEN [fs |-> store, result |-> Err("Io")]
                 ELSE [fs |-> write_files(made, root_hash, SubSeq(files, 1, k - 1), 0).val,
                       result |-> Err("Io")]

\* FileStore::get_tree
get_tree(store, root_hash) ==
    LET text == fs_read(store, root_hash, "tree.json")
    IN  IF text.tag = "Ok" THEN from_json(text.val) ELSE text

\* FileStore::get_file
FileStore_get_file(store, root_hash, index) == fs_read(store, root_hash, ToString(index))

(***************************************************************************)
(* The store used from one thread: batches are stored one after the other  *)
(* and files and trees are read back.                                      *)
(***************************************************************************)
StoreBlocks == {BlockA, BlockAA}
StoreBatches == SeqsUpTo(StoreBlocks, MaxStoreLeaves)

\* A root hash under which nothing is stored.
MissingRoot == hex_encode(<<hash(<<>>)>>)

NoStoreCall == [op |-> "none", files |-> <<>>, root_hash |-> <<>>, index |-> 0,
                before |-> EmptyStore, result |-> Err("none")]

IdleStore ==
    /\ fs = EmptyStore
    /\ puts = {}
    /\ scall = NoStoreCall
    /\ failed = 0

(***************************************************************************)
(* The wire.  A TCP stream is a byte string; a read takes bytes off its    *)
(* front.  A read that ends inside a digest, a number or a hex text takes  *)
(* a piece of it: bytes that are no digest, no number and no hex text.     *)
(***************************************************************************)
Unary(n) == [k |-> "", v |-> [i \in 1..n |-> Byte("")]]
Torn(a, off, len) == [k |-> "torn", v |-> <<a, Unary(len), Unary(off)>>]

\* len bytes from offset off of a; a piece of a piece is a piece of the atom.
Piece(a, off, len) ==
    IF a.k = "torn" THEN Torn(a.v[1], Len(a.v[3].v) + off, len) ELSE Torn(a, off, len)

\* The trailing bytes of a command tag are zero bytes: b"upload\0\0\0\0"
\* from offset 6 on, b"download\0\0" from offset 8 on.
IsZeros(a) ==
    /\ a.k = "torn"
    /\ \/ a.v[1].k = "upload" /\ Len(a.v[3].v) >= 6
       \/ a.v[1].k = "download" /\ Len(a.v[3].v) >= 8

\* The first n bytes of the stream and the rest (n <= ByteLen(bytes)).
RECURSIVE take(_, _)
take(bytes, n) ==
    IF n = 0 \/ bytes = <<>> THEN [got |-> <<>>, rest |-> bytes]
    ELSE LET a == Head(bytes)
         IN  IF Width(a) <= n
             THEN LET r == take(Tail(bytes), n - Width(a))
                  IN  [got |-> <<a>> \o r.got, rest |-> r.rest]
             ELSE [got |-> <<Piece(a, 0, n)>>,
                   rest |-> <<Piece(a, n, Width(a) - n)>> \o Tail(bytes)]

\* u64::from_be_bytes / read_u64.  Zero bytes followed by the leading bytes
\* of a number are that number shifted down by the bytes cut off: 0 for the
\* numbers of the model, which fit one byte.  Any other eight bytes that are
\* not one number as written by to_be_bytes are some number larger than any
\* length or index of the model, written -1.
from_be_bytes(bytes) ==
    IF Len(bytes) = 1 /\ bytes[1].k = "u64" THEN Len(bytes[1].v)
    ELSE IF /\ Len(bytes) = 2
            /\ IsZeros(bytes[1])
            /\ bytes[2].k = "torn"
            /\ bytes[2].v[1].k = "u64"
            /\ Len(bytes[2].v[3].v) = 0
         THEN 0
    ELSE 0 - 1

\* std::str::from_utf8: the bytes of a digest are not text.
RECURSIVE IsText(_)
IsText(a) == IF a.k = "torn" THEN IsText(a.v[1]) ELSE a.k # "h"
from_utf8(bytes) ==
    IF \A i \in 1..Len(bytes) : IsText(bytes[i]) THEN Ok(bytes) ELSE Err("Utf8Error")

\* b"upload\0\0\0\0" and b"download\0\0": the command tags, 10 bytes each.
UploadTag == <<[k |-> "upload", v |-> <<>>]>>
DownloadTag == <<[k |-> "download", v |-> <<>>]>>

\* hex::decode: the bytes a hex text encodes; other text is no hex.
RECURSIVE hex_decode(_)
hex_decode(text) ==
    IF text = <<>> THEN Ok(<<>>)
    ELSE IF Head(text).k # "x" THEN Err("InvalidHexCharacter")
    ELSE LET r == hex_decode(Tail(text))
         IN  IF r.tag = "Ok" THEN Ok(Head(text).v \o r.val) ELSE r

\* 32 bytes as a [u8; 32]: the digest they are, or 32 bytes that are no
\* digest of the model.
as_digest(bytes) ==
    IF Len(bytes) = 1 /\ bytes[1].k = "h" THEN bytes[1]
    ELSE [k |-> "raw32", v |-> bytes]

\* Vec<u8>::try_into::<[u8; 32]>
try_into_hash(bytes) ==
    IF ByteLen(bytes) = 32 THEN Ok(as_digest(bytes)) ELSE Err("Invalid hash length")

\* proof.chunks_exact(32): whole chunks of 32 bytes; a shorter rest is dropped.
RECURSIVE chunks_exact(_)
chunks_exact(bytes) ==
    IF ByteLen(bytes) < 32 THEN <<>>
    ELSE LET t == take(bytes, 32)
         IN  <<as_digest(t.got)>> \o chunks_exact(t.rest)

\* The bytes send_files writes for the files from position i on.
RECURSIVE file_frames(_, _)
file_frames(files, i) ==
    IF i > Len(files) THEN <<>>
    ELSE to_be_bytes(ByteLen(files[i])) \o files[i] \o file_frames(files, i + 1)

\* TcpClient::send_files: everything the call writes to the stream.
send_files(files) == UploadTag \o to_be_bytes(Len(files)) \o file_frames(files, 1)

\* TcpClient::get_file: the request the call writes to the stream.
get_file_request(root_hash, index) == DownloadTag \o root_hash \o to_be_bytes(index)

(***************************************************************************)
(* Connections.  Each client call runs on a connection of its own          *)
(* (TcpClient::new, then send_files or get_file); the server spawns one    *)
(* task per accepted connection.  c2s and s2c are the bytes written and    *)
(* not yet read in each direction; cClosed and sClosed tell that the       *)
(* client, the server has closed its socket.                               *)
(***************************************************************************)
Conns == 1..MaxConns

NoLocals == [count |-> 0, size |-> 0, res |-> <<>>, levels |-> <<>>,
             root_hash |-> <<>>, index |-> 0, file |-> <<>>, proof |-> <<>>, i |-> 0,
             overlap |-> FALSE]

NoConn == [kind |-> "none", c2s |-> <<>>, s2c |-> <<>>,
           cClosed |-> FALSE, sClosed |-> FALSE,
           cpc |-> "idle", root_hash |-> <<>>, index |-> 0, files |-> <<>>,
           stored |-> FALSE, size |-> 0, file |-> <<>>, siblings |-> <<>>,
           cres |-> Err("none"), written |-> Err("none"),
           persisted |-> FALSE, removed |-> FALSE,
           spc |-> "idle", sres |-> "none", sv |-> NoLocals]

IdleNet ==
    /\ conns = [c \in Conns |-> NoConn]
    /\ sent = {}

NetBlocks == {BlockA, BlockB}
NetBatches == SeqsUpTo(NetBlocks, MaxNetLeaves)

\* The root the client computes for a batch before it uploads it
\* (main.rs: MerkleTree::new(&data)?.root().map(bytes_to_hex_string)).
client_root_hash(files) == bytes_to_hex_string(root(new(files).val).val)

\* A batch is stored whole: its directory holds the tree and no upload
\* task is writing.
Stored(root_hash) ==
    /\ fs_read(fs, root_hash, "tree.json").tag = "Ok"
    /\ \A c \in Conns : conns[c].kind = "upload" => conns[c].spc = "done"

\* Connections are opened in the order of their numbers.
CanOpen(c) ==
    /\ conns[c].kind = "none"
    /\ \A b \in Conns : b < c => conns[b].kind # "none"

\* read_exact(n) and read_u64 return once n bytes are there, and fail at the
\* end of a stream that holds fewer.
CanRead(stream, closed, n) == (n >= 0 /\ ByteLen(stream) >= n) \/ closed
HasBytes(stream, n) == n >= 0 /\ ByteLen(stream) >= n

(***************************************************************************)
(* The client (client.rs).                                                 *)
(***************************************************************************)
\* upload: the root is computed, the connection opened, send_files writes
\* the whole batch and returns, db.persist records the root with the file
\* names, the source files are removed, and the client process ends, closing
\* its socket.
ClientSendFiles(c) ==
    /\ CanOpen(c)
    /\ \E files \in NetBatches \ {<<>>} :
          /\ conns' = [conns EXCEPT ![c] =
                 [NoConn EXCEPT !.kind = "upload", !.files = files,
                                !.root_hash = client_root_hash(files),
                                !.c2s = send_files(files), !.cClosed = TRUE,
                                !.cpc = "done", !.cres = Ok(<<>>),
                                !.persisted = TRUE, !.removed = TRUE,
                                !.spc = "read_command"]]
          /\ sent' = sent \cup {[root_hash |-> client_root_hash(files), files |-> files]}
    /\ UNCHANGED <<treeVars, storeVars, db>>

\* get_file: the request is written; the call goes on to read the answer.
ClientGetFile(c) ==
    /\ CanOpen(c)
    /\ \E root_hash \in {b.root_hash : b \in sent} \cup {MissingRoot},
          index \in 0..MaxNetLeaves :
          conns' = [conns EXCEPT ![c] =
                 [NoConn EXCEPT !.kind = "download", !.root_hash = root_hash,
                                !.index = index, !.stored = Stored(root_hash),
                                !.c2s = get_file_request(root_hash, index),
                                !.cpc = "recv_size", !.spc = "read_command"]]
    /\ UNCHANGED <<sent, treeVars, storeVars, db>>

\* get_file called with a root-hash string of another length than the 64
\* characters of a digest in hex: the string is written as it is.
ShortRoot == hex_encode(<<Byte("s")>>)
LongRoot == hex_encode(<<hash(<<>>), Byte("s")>>)
RootTexts == {ShortRoot, LongRoot}

ClientGetFileText(c) ==
    /\ CanOpen(c)
    /\ \E root_hash \in RootTexts, index \in 0..MaxNetLeaves :
          conns' = [conns EXCEPT ![c] =
                 [NoConn EXCEPT !.kind = "download", !.root_hash = root_hash,
                                !.index = index, !.stored = Stored(root_hash),
                                !.c2s = get_file_request(root_hash, index),
                                !.cpc = "recv_size", !.spc = "read_command"]]
    /\ UNCHANGED <<sent, treeVars, storeVars, db>>

ClientGiveEmpty(cn, e) == [cn EXCEPT !.cpc = "done", !.cres = Ok(<<>>), !.cClosed = TRUE]

\* An error returned by `?` or a failed proof: get_file returns Err and the
\* client's stream is dropped.
ClientFail(cn, e) == [cn EXCEPT !.cpc = "done", !.cres = Err(e), !.cClosed = TRUE]

\* self.stream.read_exact(&mut file_size)?
ClientRecvSize(c) ==
    LET cn == conns[c]
    IN  /\ cn.cpc = "recv_size"
        /\ CanRead(cn.s2c, cn.sClosed, 8)
        /\ conns' = [conns EXCEPT ![c] =
              IF HasBytes(cn.s2c, 8)
              THEN [cn EXCEPT !.size = from_be_bytes(take(cn.s2c, 8).got),
                              !.s2c = take(cn.s2c, 8).rest, !.cpc = "recv_file"]
              ELSE ClientFail(cn, "UnexpectedEof")]
        /\ UNCHANGED <<sent, treeVars, storeVars, db>>

\* self.stream.read_exact(&mut file)?, then hex::decode(root_hash)?.try_into()
ClientRecvFile(c) ==
    LET cn == conns[c]
        decoded == hex_decode(cn.root_hash)
    IN  /\ cn.cpc = "recv_file"
        /\ CanRead(cn.s2c, cn.sClosed, cn.size)
        /\ conns' = [conns EXCEPT ![c] =
              IF ~HasBytes(cn.s2c, cn.size) THEN ClientFail(cn, "UnexpectedEof")
              ELSE IF decoded.tag # "Ok" THEN ClientFail(cn, decoded.val)
              ELSE IF try_into_hash(decoded.val).tag # "Ok"
                   THEN ClientFail(cn, "Invalid hash length")
              ELSE [cn EXCEPT !.file = take(cn.s2c, cn.size).got,
                              !.s2c = take(cn.s2c, cn.size).rest,
                              !.cpc = "recv_proof"]]
        /\ UNCHANGED <<sent, treeVars, storeVars, db>>

\* read_to_end returns when the server has closed the connection; the proof
\* is cut into digests and verified against the root the caller passed.
\* download (main.rs) writes the file get_file returned to client_store and
\* writes nothing when get_file returned an error.
ClientRecvProof(c) ==
    LET cn == conns[c]
        trusted == try_into_hash(hex_decode(cn.root_hash).val).val
        siblings == chunks_exact(cn.s2c)
    IN  /\ cn.cpc = "recv_proof"
        /\ cn.sClosed
        /\ conns' = [conns EXCEPT ![c] =
              IF verify(cn.index, cn.file, trusted, siblings)
              THEN [cn EXCEPT !.s2c = <<>>, !.cpc = "done", !.cres = Ok(cn.file),
                              !.siblings = siblings, !.written = Ok(cn.file),
                              !.cClosed = TRUE]
              ELSE [ClientFail(cn, "Invalid proof") EXCEPT !.s2c = <<>>,
                                                          !.siblings = siblings]]
        /\ UNCHANGED <<sent, treeVars, storeVars, db>>

(***************************************************************************)
(* The client's index (db.rs) over invocations of the client (main.rs).    *)
(* Every invocation calls Db::new on client_store, runs one subcommand and *)
(* exits; what outlives it is the directory and uploads.json.              *)
(***************************************************************************)
\* HashMap::new() and HashMap::insert (the value of an existing key is
\* replaced).
EmptyMap == <<>>
insert(map, key, value) == (key :> value) @@ map

\* The length of serde_json::to_writer_pretty(&uploads): "{}" for the empty
\* map, and more for every root (64 characters) and every file name (the
\* names of the model are one character long).
RECURSIVE EntriesLen(_, _)
EntriesLen(map, keys) ==
    IF keys = {} THEN 0
    ELSE LET key == CHOOSE x \in keys : TRUE
         IN  64 + 8 + 4 * Len(map[key]) + EntriesLen(map, keys \ {key})
JsonLen(map) == 2 + EntriesLen(map, DOMAIN map)

\* OpenOptions::new().create(true).write(true).open(..), then
\* to_writer_pretty(file, &uploads): the file is created if it is not there,
\* it is not truncated, and the JSON is written over its first bytes.
write_json(file, map) ==
    [exists |-> TRUE, head |-> <<map>>,
     len |-> IF file.len > JsonLen(map) THEN file.len ELSE JsonLen(map)]

\* Db::new: the directory and an empty uploads.json are created, or the
\* JSON of the empty map is written into the file that is there; uploads
\* is HashMap::new() in both cases.
Db_new(disk) ==
    LET uploads == EmptyMap
    IN  IF ~disk.dir
        THEN [dir |-> TRUE, file |-> [exists |-> TRUE, head |-> <<>>, len |-> 0],
              uploads |-> uploads]
        ELSE [dir |-> TRUE, file |-> write_json(disk.file, uploads),
              uploads |-> uploads]

\* Db::persist
persist(self, root_hash, files) ==
    LET uploads == insert(self.uploads, root_hash, files)
    IN  [self EXCEPT !.uploads = uploads, !.file = write_json(self.file, uploads)]

\* Db::get_uploads
get_uploads(self) == self.uploads

\* Db::get_index: files.iter().position(|f| f == file_name)
get_index(self, root_hash, file_name) ==
    IF root_hash \in DOMAIN self.uploads
          /\ \E i \in 1..Len(self.uploads[root_hash]) : self.uploads[root_hash][i] = file_name
    THEN LET files == self.uploads[root_hash]
             at == CHOOSE i \in 1..Len(files) :
                      /\ files[i] = file_name
                      /\ \A j \in 1..(i - 1) : files[j] # file_name
         IN  Some(at - 1)
    ELSE None

\* The files of the client's working directory, by name, and their bytes;
\* the lists of paths an upload names, duplicates removed (utils::dedup).
FileNames == {"f", "g"}
Content(name) == IF name = "f" THEN BlockA ELSE BlockB
Contents(names) == [i \in 1..Len(names) |-> Content(names[i])]
Uploads ==
    {names \in SeqsUpTo(FileNames, MaxPutLeaves) \ {<<>>} :
        \A i, j \in 1..Len(names) : names[i] = names[j] => i = j}

\* main with the subcommand list: the roots and file names of Db::new's map.
RunList ==
    LET self == Db_new(db)
    IN  /\ db' = [db EXCEPT !.dir = self.dir, !.file = self.file,
                            !.last = [NoRun EXCEPT !.op = "list",
                                                   !.uploads = get_uploads(self)]]
        /\ UNCHANGED <<treeVars, storeVars, netVars>>

\* main with the subcommand upload, for a run in which send_files returned
\* Ok: the root is computed over the files' bytes and persisted with the
\* file names.
RunUpload ==
    \E names \in Uploads :
        LET root_hash == client_root_hash(Contents(names))
            self == persist(Db_new(db), root_hash, names)
        IN  /\ db' = [db EXCEPT !.dir = self.dir, !.file = self.file,
                                !.uploaded = @ \cup {[root_hash |-> root_hash,
                                                      files |-> names]},
                                !.last = [NoRun EXCEPT !.op = "upload",
                                                       !.root_hash = root_hash,
                                                       !.uploads = get_uploads(self)]]
            /\ UNCHANGED <<treeVars, storeVars, netVars>>

\* main with the subcommand download: db.get_index(root_hash, filename)
\* gives the index get_file is called with, or the run ends with
\* "File .. not found in root hash ..".
RunDownload ==
    \E names \in Uploads, file_name \in FileNames :
        LET root_hash == client_root_hash(Contents(names))
            self == Db_new(db)
        IN  /\ db' = [db EXCEPT !.dir = self.dir, !.file = self.file,
                                !.last = [NoRun EXCEPT !.op = "download",
                                              !.root_hash = root_hash,
                                              !.file_name = file_name,
                                              !.index = get_index(self, root_hash, file_name),
                                              !.uploads = get_uploads(self)]]
            /\ UNCHANGED <<treeVars, storeVars, netVars>>

InitDb ==
    /\ IdleTree
    /\ IdleDb
    /\ IdleStore
    /\ IdleNet

NextDb == RunList \/ RunUpload \/ RunDownload

(***************************************************************************)
(* The server (server.rs): the task spawned for a connection.  The task    *)
(* ends, and its socket is dropped, when handle_client returns, fails or   *)
(* panics.                                                                 *)
(***************************************************************************)
Finish_keep_open(cn, outcome) == [cn EXCEPT !.spc = "done", !.sres = outcome]

Finish(cn, outcome) == [cn EXCEPT !.spc = "done", !.sres = outcome, !.sClosed = TRUE]

\* The command buffer [0; 10] after the bytes read were copied into it, with
\* its trailing zero bytes trimmed: the tag read whole, or its leading bytes
\* when they hold every byte of the tag that is not zero.
command(got) ==
    IF got = UploadTag THEN "upload"
    ELSE IF got = DownloadTag THEN "download"
    ELSE IF Len(got) = 1 /\ got[1].k = "torn" /\ Len(got[1].v[3].v) = 0
         THEN IF got[1].v[1].k = "upload" /\ Len(got[1].v[2].v) >= 6 THEN "upload"
              ELSE IF got[1].v[1].k = "download" /\ Len(got[1].v[2].v) >= 8 THEN "download"
              ELSE "unknown"
    ELSE "unknown"

\* handle_client when stream.read(&mut command) returned n bytes: the match
\* on the command.
ReadCommand(c, n) ==
    LET cn == conns[c]
        t == take(cn.c2s, n)
    IN  /\ cn.spc = "read_command"
        /\ conns' = [conns EXCEPT ![c] =
              IF from_utf8(t.got).tag # "Ok" THEN Finish([cn EXCEPT !.c2s = t.rest], "Err")
              ELSE IF command(t.got) = "upload"
                   THEN [cn EXCEPT !.c2s = t.rest, !.spc = "read_count"]
              ELSE IF command(t.got) = "download"
                   THEN [cn EXCEPT !.c2s = t.rest, !.spc = "read_root"]
              ELSE Finish([cn EXCEPT !.c2s = t.rest], "Ok")]
        /\ UNCHANGED <<sent, treeVars, storeVars, db>>

\* stream.read(&mut command) when the client's request has arrived whole:
\* at most 10 bytes, nothing at the end of the stream.
ServerReadCommand(c) ==
    /\ conns[c].c2s # <<>> \/ conns[c].cClosed
    /\ ReadCommand(c, IF ByteLen(conns[c].c2s) < 10 THEN ByteLen(conns[c].c2s) ELSE 10)

\* stream.read(&mut command) when the request arrives in segments: the read
\* returns the bytes of the segments that have arrived, at least one byte
\* and at most 10, and nothing at the end of the stream.
ServerReadSome(c) ==
    IF conns[c].c2s = <<>> THEN conns[c].cClosed /\ ReadCommand(c, 0)
    ELSE \E n \in 1..10 : n <= ByteLen(conns[c].c2s) /\ ReadCommand(c, n)

\* handle_upload: let number_of_files = stream.read_u64().await? as usize
ServerReadCount(c) ==
    LET cn == conns[c]
        t == take(cn.c2s, 8)
        count == from_be_bytes(t.got)
    IN  /\ cn.spc = "read_count"
        /\ CanRead(cn.c2s, cn.cClosed, 8)
        /\ conns' = [conns EXCEPT ![c] =
              IF ~HasBytes(cn.c2s, 8) THEN Finish(cn, "Err")
              ELSE [cn EXCEPT !.c2s = t.rest, !.sv.count = count,
                              !.spc = IF count = 0 THEN "store" ELSE "read_size"]]
        /\ UNCHANGED <<sent, treeVars, storeVars, db>>

\* handle_upload: let file_size = stream.read_u64().await? as usize
ServerReadSize(c) ==
    LET cn == conns[c]
        t == take(cn.c2s, 8)
    IN  /\ cn.spc = "read_size"
        /\ CanRead(cn.c2s, cn.cClosed, 8)
        /\ conns' = [conns EXCEPT ![c] =
              IF ~HasBytes(cn.c2s, 8) THEN Finish(cn, "Err")
              ELSE [cn EXCEPT !.c2s = t.rest, !.sv.size = from_be_bytes(t.got),
                              !.spc = "read_file"]]
        /\ UNCHANGED <<sent, treeVars, storeVars, db>>

\* handle_upload: stream.read_exact(&mut file).await?; res.push(file)
ServerReadFile(c) ==
    LET cn == conns[c]
        t == take(cn.c2s, cn.sv.size)
    IN  /\ cn.spc = "read_file"
        /\ CanRead(cn.c2s, cn.cClosed, cn.sv.size)
        /\ conns' = [conns EXCEPT ![c] =
              IF ~HasBytes(cn.c2s, cn.sv.size) THEN Finish(cn, "Err")
              ELSE [cn EXCEPT !.c2s = t.rest, !.sv.res = Append(@, t.got),
                              !.spc = IF Len(cn.sv.res) + 1 = cn.sv.count
                                      THEN "store" ELSE "read_size"]]
        /\ UNCHANGED <<sent, treeVars, storeVars, db>>

\* store_files: the tree and its root, then fs::create_dir_all(&dir)?
ServerStoreBegin(c) ==
    LET cn == conns[c]
        t == new(cn.sv.res)
        root_hash == hex_encode(<<root(t.val).val>>)
    IN  /\ cn.spc = "store"
        /\ IF t.tag # "Ok"
           THEN /\ conns' = [conns EXCEPT ![c] = Finish(cn, t.val)]
                /\ fs' = fs
           ELSE /\ conns' = [conns EXCEPT ![c] =
                       [cn EXCEPT !.sv.levels = t.val, !.sv.root_hash = root_hash,
                                  !.sv.i = 0, !.spc = "write_file"]]
                /\ fs' = create_dir_all(fs, root_hash)
        /\ UNCHANGED <<puts, scall, failed, sent, treeVars, db>>

\* Another task is inside store_files, between its first write and its last
\* (sv.overlap remembers that a task wrote while another was writing).
Writing(c) ==
    \E d \in Conns \ {c} :
        \/ conns[d].spc = "write_tree"
        \/ conns[d].spc = "write_file" /\ conns[d].sv.i > 0

\* store_files: fs::write(dir.join(i.to_string()), file_data)?
ServerWriteFile(c) ==
    LET cn == conns[c]
        w == fs_write(fs, cn.sv.root_hash, ToString(cn.sv.i), cn.sv.res[cn.sv.i + 1])
    IN  /\ cn.spc = "write_file"
        /\ fs' = w.val
        /\ conns' = [conns EXCEPT ![c] =
              [cn EXCEPT !.sv.i = @ + 1,
                         !.sv.overlap = @ \/ Writing(c),
                         !.spc = IF cn.sv.i + 1 = Len(cn.sv.res)
                                 THEN "write_tree" ELSE "write_file"]]
        /\ UNCHANGED <<puts, scall, failed, sent, treeVars, db>>

\* store_files: the tree is serialized and written to tree.json.
ServerWriteTree(c) ==
    LET cn == conns[c]
        w == fs_write(fs, cn.sv.root_hash, "tree.json", to_json(cn.sv.levels))
    IN  /\ cn.spc = "write_tree"
        /\ fs' = w.val
        /\ conns' = [conns EXCEPT ![c] = Finish(cn, "Ok")]
        /\ UNCHANGED <<puts, scall, failed, sent, treeVars, db>>

\* handle_download: read_exact(&mut root_hash) and std::str::from_utf8
ServerReadRoot(c) ==
    LET cn == conns[c]
        t == take(cn.c2s, 64)
    IN  /\ cn.spc = "read_root"
        /\ CanRead(cn.c2s, cn.cClosed, 64)
        /\ conns' = [conns EXCEPT ![c] =
              IF ~HasBytes(cn.c2s, 64) THEN Finish(cn, "Err")
              ELSE IF from_utf8(t.got).tag # "Ok"
                   THEN Finish([cn EXCEPT !.c2s = t.rest], "Err")
              ELSE [cn EXCEPT !.c2s = t.rest, !.sv.root_hash = t.got,
                              !.spc = "read_index"]]
        /\ UNCHANGED <<sent, treeVars, storeVars, db>>

\* handle_download: let index = stream.read_u64().await? as usize
ServerReadIndex(c) ==
    LET cn == conns[c]
        t == take(cn.c2s, 8)
    IN  /\ cn.spc = "read_index"
        /\ CanRead(cn.c2s, cn.cClosed, 8)
        /\ conns' = [conns EXCEPT ![c] =
              IF ~HasBytes(cn.c2s, 8) THEN Finish(cn, "Err")
              ELSE [cn EXCEPT !.c2s = t.rest, !.sv.index = from_be_bytes(t.got),
                              !.spc = "get_file"]]
        /\ UNCHANGED <<sent, treeVars, storeVars, db>>

\* handle_download: let file = store.get_file(&root_hash, index)?
ServerGetFile(c) ==
    LET cn == conns[c]
        f == FileStore_get_file(fs, cn.sv.root_hash, cn.sv.index)
    IN  /\ cn.spc = "get_file"
        /\ conns' = [conns EXCEPT ![c] =
              IF f.tag # "Ok" THEN Finish(cn, "Err")
              ELSE [cn EXCEPT !.sv.file = f.val, !.spc = "get_tree"]]
        /\ UNCHANGED <<sent, treeVars, storeVars, db>>

\* handle_download: store.get_tree(&root_hash)?.proof(index)? flattened to
\* bytes; a panic in proof ends the task.
ServerGetTree(c) ==
    LET cn == conns[c]
        t == get_tree(fs, cn.sv.root_hash)
        p == proof(t.val, cn.sv.index)
    IN  /\ cn.spc = "get_tree"
        /\ conns' = [conns EXCEPT ![c] =
              IF t.tag # "Ok" THEN Finish(cn, "Err")
              ELSE IF p.tag = "Panic" THEN Finish(cn, "Panic")
              ELSE IF p.tag # "Ok" THEN Finish(cn, "Err")
              ELSE [cn EXCEPT !.sv.proof = p.val, !.spc = "send_size"]]
        /\ UNCHANGED <<sent, treeVars, storeVars, db>>

\* handle_download: stream.write_all(&(file.len().to_be_bytes())).await?
ServerSendSize(c) ==
    LET cn == conns[c]
    IN  /\ cn.spc = "send_size"
        /\ conns' = [conns EXCEPT ![c] =
              [cn EXCEPT !.s2c = @ \o to_be_bytes(ByteLen(cn.sv.file)),
                         !.spc = "send_file"]]
        /\ UNCHANGED <<sent, treeVars, storeVars, db>>

\* handle_download: stream.write_all(&file).await?
ServerSendFile(c) ==
    LET cn == conns[c]
    IN  /\ cn.spc = "send_file"
        /\ conns' = [conns EXCEPT ![c] =
              [cn EXCEPT !.s2c = @ \o cn.sv.file, !.spc = "send_proof"]]
        /\ UNCHANGED <<sent, treeVars, storeVars, db>>

\* handle_download: stream.write_all(&proof).await?, Ok(()), socket dropped.
ServerSendProof(c) ==
    LET cn == conns[c]
    IN  /\ cn.spc = "send_proof"
        /\ conns' = [conns EXCEPT ![c] = Finish([cn EXCEPT !.s2c = @ \o cn.sv.proof], "Ok")]
        /\ UNCHANGED <<sent, treeVars, storeVars, db>>

InitNet ==
    /\ IdleTree
    /\ IdleDb
    /\ IdleStore
    /\ IdleNet

ClientStep(c) ==
    \/ ClientSendFiles(c)
    \/ ClientGetFile(c)
    \/ ClientRecvSize(c)
    \/ ClientRecvFile(c)
    \/ ClientRecvProof(c)

ServerStep(c) ==
    \/ ServerReadCommand(c)
    \/ ServerReadCount(c)
    \/ ServerReadSize(c)
    \/ ServerReadFile(c)
    \/ ServerStoreBegin(c)
    \/ ServerWriteFile(c)
    \/ ServerWriteTree(c)
    \/ ServerReadRoot(c)
    \/ ServerReadIndex(c)
    \/ ServerGetFile(c)
    \/ ServerGetTree(c)
    \/ ServerSendSize(c)
    \/ ServerSendFile(c)
    \/ ServerSendProof(c)

NextNet == \E c \in Conns : ClientStep(c) \/ ServerStep(c)

InitStore ==
    /\ IdleTree
    /\ IdleDb
    /\ IdleStore
    /\ IdleNet

CallStoreFiles ==
    /\ scall = NoStoreCall
    /\ \E files \in StoreBatches :
          LET done == store_files(fs, files)
              put == IF done.result.tag = "Ok"
                     THEN {[root_hash |-> done.result.val, files |-> files]}
                     ELSE {}
          IN  /\ Cardinality(puts \cup put) <= MaxPuts
              /\ fs' = done.fs
              /\ puts' = puts \cup put
              /\ scall' = [NoStoreCall EXCEPT !.op = "store_files", !.files = files,
                                              !.before = fs, !.result = done.result]
    /\ UNCHANGED failed
    /\ UNCHANGED notStoreVars

\* store_files returning the error of a failed file system call.
CallStoreFilesFail ==
    /\ scall = NoStoreCall
    /\ failed < MaxFailed
    /\ failed' = failed + 1
    /\ \E files \in StoreBatches \ {<<>>} :
          \E k \in 0..(Len(files) + 1) :
              LET done == store_files_failing(fs, files, k)
              IN  /\ fs' = done.fs
                  /\ scall' = [NoStoreCall EXCEPT !.op = "store_files", !.files = files,
                                                  !.before = fs, !.result = done.result]
    /\ UNCHANGED puts
    /\ UNCHANGED notStoreVars

CallGetFile ==
    /\ scall = NoStoreCall
    /\ \E root_hash \in fs.dirs \cup {MissingRoot}, index \in 0..MaxStoreLeaves :
          scall' = [NoStoreCall EXCEPT !.op = "get_file", !.root_hash = root_hash,
                                       !.index = index,
                                       !.result = FileStore_get_file(fs, root_hash, index)]
    /\ UNCHANGED <<fs, puts, failed>>
    /\ UNCHANGED notStoreVars

CallGetTree ==
    /\ scall = NoStoreCall
    /\ \E root_hash \in fs.dirs \cup {MissingRoot} :
          scall' = [NoStoreCall EXCEPT !.op = "get_tree", !.root_hash = root_hash,
                                       !.result = get_tree(fs, root_hash)]
    /\ UNCHANGED <<fs, puts, failed>>
    /\ UNCHANGED notStoreVars

StoreReturn ==
    /\ scall # NoStoreCall
    /\ scall' = NoStoreCall
    /\ UNCHANGED <<fs, puts, failed>>
    /\ UNCHANGED notStoreVars

NextStore ==
    \/ CallStoreFiles
    \/ CallStoreFilesFail
    \/ CallGetFile
    \/ CallGetTree
    \/ StoreReturn

\* store_files called again and again, each call running to its end.
NextRestore == CallStoreFiles \/ StoreReturn

(***************************************************************************)
(* The server under faults: requests that arrive in segments, requests     *)
(* that are not the frames a client writes, file system calls that fail,   *)
(* and buffers that cannot be allocated.                                   *)
(***************************************************************************)
\* Requests written by something other than TcpClient: an upload of no
\* files, an upload cut off after the first of two files, a tag that is no
\* command, an upload whose file size is eight bytes of text, and bytes that
\* are not UTF-8.
TextSize == [i \in 1..8 |-> Byte("1")]
RawRequests ==
    { UploadTag \o to_be_bytes(0),
      UploadTag \o to_be_bytes(2) \o to_be_bytes(1) \o BlockA,
      <<Byte("1")>>,
      UploadTag \o to_be_bytes(1) \o TextSize \o BlockA,
      <<hash(BlockA)>> }

\* The server process runs: no task has aborted it.
ServerUp == \A c \in Conns : conns[c].sres \notin {"Abort", "Killed"}

\* The process aborts: every task ends and every socket is closed.
Aborted(c) ==
    [d \in Conns |->
        IF d = c THEN Finish(conns[d], "Abort")
        ELSE IF conns[d].kind # "none" /\ conns[d].spc # "done" THEN Finish(conns[d], "Killed")
        ELSE conns[d]]

\* A client of another make connects, writes a request and closes.
ClientSendRaw(c) ==
    /\ CanOpen(c)
    /\ ServerUp
    /\ \E request \in RawRequests :
          conns' = [conns EXCEPT ![c] =
                 [NoConn EXCEPT !.kind = "raw", !.c2s = request, !.cClosed = TRUE,
                                !.cpc = "done", !.cres = Ok(<<>>),
                                !.spc = "read_command"]]
    /\ UNCHANGED <<sent, treeVars, storeVars, db>>

\* TcpClient::new(server_addr)? when nothing listens: upload and download
\* return the error before anything else happens.
ClientRefused(c) ==
    /\ CanOpen(c)
    /\ ~ServerUp
    /\ conns' = [conns EXCEPT ![c] =
           [NoConn EXCEPT !.kind = "refused", !.cClosed = TRUE, !.sClosed = TRUE,
                          !.cpc = "done", !.cres = Err("ConnectionRefused"),
                          !.spc = "done"]]
    /\ UNCHANGED <<sent, treeVars, storeVars, db>>

\* store_files: fs::create_dir_all, fs::write or File::create fails and `?`
\* returns the error; the call it failed in wrote nothing.
ServerIoFail(c) ==
    LET cn == conns[c]
        t == new(cn.sv.res)
    IN  /\ cn.spc \in {"store", "write_file", "write_tree"}
        /\ cn.spc = "store" => t.tag = "Ok"
        /\ conns' = [conns EXCEPT ![c] =
              IF cn.spc = "store"
              THEN Finish([cn EXCEPT !.sv.levels = t.val,
                                     !.sv.root_hash = hex_encode(<<root(t.val).val>>)], "Io")
              ELSE Finish(cn, "Io")]
        /\ UNCHANGED <<sent, treeVars, storeVars, db>>

\* handle_upload: vec![0; file_size] with a size no allocation can satisfy.
\* A size above isize::MAX panics with capacity overflow and ends the task;
\* a size the allocator refuses ends in handle_alloc_error, which aborts
\* the process.  (A size the allocator grants goes on to read_exact.)
ServerAllocFail(c) ==
    LET cn == conns[c]
    IN  /\ cn.spc = "read_file"
        /\ cn.sv.size < 0
        /\ \/ conns' = Aborted(c)
           \/ conns' = [conns EXCEPT ![c] = Finish(cn, "Panic")]
        /\ UNCHANGED <<sent, treeVars, storeVars, db>>

InitFault ==
    /\ IdleTree
    /\ IdleDb
    /\ IdleStore
    /\ IdleNet

FaultClientStep(c) ==
    \/ ServerUp /\ ClientSendFiles(c)
    \/ ServerUp /\ ClientGetFile(c)
    \/ ClientSendRaw(c)
    \/ ClientRefused(c)
    \/ ClientRecvSize(c)
    \/ ClientRecvFile(c)
    \/ ClientRecvProof(c)

FaultServerStep(c) ==
    \/ ServerReadSome(c)
    \/ ServerReadCount(c)
    \/ ServerReadSize(c)
    \/ ServerReadFile(c)
    \/ ServerStoreBegin(c)
    \/ ServerWriteFile(c)
    \/ ServerWriteTree(c)
    \/ ServerIoFail(c)
    \/ ServerAllocFail(c)
    \/ ServerReadRoot(c)
    \/ ServerReadIndex(c)
    \/ ServerGetFile(c)
    \/ ServerGetTree(c)
    \/ ServerSendSize(c)
    \/ ServerSendFile(c)
    \/ ServerSendProof(c)

NextFault == \E c \in Conns : FaultClientStep(c) \/ FaultServerStep(c)

(***************************************************************************)
(* The upload path on its own: the store holds a batch, and one connection *)
(* carries an upload or a request of another make, served under the same   *)
(* faults.                                                                 *)
(***************************************************************************)
InitUpload ==
    /\ IdleTree
    /\ IdleDb
    /\ IdleNet
    /\ puts = {}
    /\ scall = NoStoreCall
    /\ failed = 0
    /\ \E files \in NetBatches \ {<<>>} : fs = store_files(EmptyStore, files).fs

NextUpload ==
    \/ ClientSendFiles(1)
    \/ ClientSendRaw(1)
    \/ ServerReadSome(1)
    \/ ServerReadCount(1)
    \/ ServerReadSize(1)
    \/ ServerReadFile(1)
    \/ ServerStoreBegin(1)
    \/ ServerWriteFile(1)
    \/ ServerWriteTree(1)
    \/ ServerIoFail(1)
    \/ ServerAllocFail(1)

(***************************************************************************)
(* One connection served from its first byte to its last: the store holds  *)
(* a batch, whole or left partly written by a store_files that failed, and *)
(* the connection carries one client call, an upload or a download of any  *)
(* root string and index, its request arriving in segments.                *)
(***************************************************************************)
InitServe ==
    /\ IdleTree
    /\ IdleDb
    /\ puts = {}
    /\ scall = NoStoreCall
    /\ failed = 0
    /\ conns = [c \in Conns |-> NoConn]
    /\ \E files \in NetBatches \ {<<>>} :
          /\ sent = {[root_hash |-> client_root_hash(files), files |-> files]}
          /\ \/ fs = store_files(EmptyStore, files).fs
             \/ \E k \in 1..(Len(files) + 1) :
                    fs = store_files_failing(EmptyStore, files, k).fs

NextServe ==
    \/ ClientSendFiles(1)
    \/ ClientGetFile(1)
    \/ ClientGetFileText(1)
    \/ ClientRecvSize(1)
    \/ ClientRecvFile(1)
    \/ ClientRecvProof(1)
    \/ ServerReadSome(1)
    \/ ServerReadCount(1)
    \/ ServerReadSize(1)
    \/ ServerReadFile(1)
    \/ ServerStoreBegin(1)
    \/ ServerWriteFile(1)
    \/ ServerWriteTree(1)
    \/ ServerReadRoot(1)
    \/ ServerReadIndex(1)
    \/ ServerGetFile(1)
    \/ ServerGetTree(1)
    \/ ServerSendSize(1)
    \/ ServerSendFile(1)
    \/ ServerSendProof(1)

(***************************************************************************)
(* store_files on concurrent tasks: every connection has delivered a batch *)
(* (handle_upload has returned it), and the tasks run store_files with     *)
(* their file system calls interleaved in any order.                       *)
(***************************************************************************)
PutBatches == SeqsUpTo(NetBlocks, MaxPutLeaves) \ {<<>>}

Uploaded(files) ==
    [NoConn EXCEPT !.kind = "upload", !.files = files,
                   !.root_hash = client_root_hash(files), !.cClosed = TRUE,
                   !.cpc = "done", !.cres = Ok(<<>>), !.spc = "store",
                   !.sv.count = Len(files), !.sv.res = files]

InitPut ==
    /\ IdleTree
    /\ IdleDb
    /\ IdleStore
    /\ sent = {}
    /\ conns \in [Conns -> {Uploaded(files) : files \in PutBatches}]

NextPut == \E c \in Conns : ServerStoreBegin(c) \/ ServerWriteFile(c) \/ ServerWriteTree(c)

(***************************************************************************)
(* A download while a store_files call is in flight: the store is empty or *)
(* holds a batch, the task of connection 1 has received a batch and runs   *)
(* store_files one file system call at a time, and connection 2 carries a  *)
(* download of a root the clients uploaded, served in between.             *)
(***************************************************************************)
RaceBlocks == {BlockA, BlockAA}
RaceBatches == SeqsUpTo(RaceBlocks, MaxPutLeaves) \ {<<>>}

InitRace ==
    /\ IdleTree
    /\ IdleDb
    /\ puts = {}
    /\ scall = NoStoreCall
    /\ failed = 0
    /\ \E files \in RaceBatches :
          /\ conns = [c \in Conns |-> IF c = 1 THEN Uploaded(files) ELSE NoConn]
          /\ \/ /\ fs = EmptyStore
                /\ sent = {[root_hash |-> client_root_hash(files), files |-> files]}
             \/ \E held \in RaceBatches :
                    /\ fs = store_files(EmptyStore, held).fs
                    /\ sent = {[root_hash |-> client_root_hash(files), files |-> files],
                               [root_hash |-> client_root_hash(held), files |-> held]}

NextRace ==
    \/ ServerStoreBegin(1)
    \/ ServerWriteFile(1)
    \/ ServerWriteTree(1)
    \/ ClientGetFile(2)
    \/ ClientRecvSize(2)
    \/ ClientRecvFile(2)
    \/ ClientRecvProof(2)
    \/ ServerReadCommand(2)
    \/ ServerReadRoot(2)
    \/ ServerReadIndex(2)
    \/ ServerGetFile(2)
    \/ ServerGetTree(2)
    \/ ServerSendSize(2)
    \/ ServerSendFile(2)
    \/ ServerSendProof(2)

(***************************************************************************)
(* The client against a server that answers a download with any bytes: a   *)
(* batch has been uploaded, the client calls get_file with the root it     *)
(* computed, and whoever holds the other end of the connection writes a    *)
(* response of its choice and closes.                                      *)
(***************************************************************************)
AdvFiles == {BlockA, BlockB, BlockDD, BlockAA, BlockD}
AdvDigests == {hash(BlockA), hash(BlockB), hash(BlockDD), hash(BlockD)}
AdvProofs == SeqsUpTo(AdvDigests, MaxForged)
AdvResponses ==
    {to_be_bytes(ByteLen(f)) \o f \o p : f \in AdvFiles, p \in AdvProofs}
    \cup {to_be_bytes(ByteLen(f)) \o f \o p \o <<Byte("1")>> : f \in AdvFiles, p \in AdvProofs}
    \cup {<<>>, to_be_bytes(1), <<Byte("1")>> \o to_be_bytes(1) \o BlockA}

InitAdv ==
    /\ IdleTree
    /\ IdleDb
    /\ IdleStore
    /\ conns = [c \in Conns |-> NoConn]
    /\ \E files \in NetBatches \ {<<>>} :
          sent = {[root_hash |-> client_root_hash(files), files |-> files]}

AdvRespond(c) ==
    LET cn == conns[c]
    IN  /\ cn.kind = "download"
        /\ ~cn.sClosed
        /\ \E response \in AdvResponses :
              conns' = [conns EXCEPT ![c] =
                  Finish([cn EXCEPT !.c2s = <<>>, !.s2c = response], "Ok")]
        /\ UNCHANGED <<sent, treeVars, storeVars, db>>

NextAdv ==
    \/ ClientGetFile(1)
    \/ ClientRecvSize(1)
    \/ ClientRecvFile(1)
    \/ ClientRecvProof(1)
    \/ AdvRespond(1)

(***************************************************************************)
(* Specifications.                                                         *)
(***************************************************************************)
Init ==
    /\ InitTree
    /\ IdleStore
    /\ IdleNet
    /\ IdleDb

Next == NextTree

Spec == Init /\ [][Next]_vars

SpecStore == InitStore /\ [][NextStore]_vars

SpecNet == InitNet /\ [][NextNet]_vars

SpecAdv == InitAdv /\ [][NextAdv]_vars

SpecPut == InitPut /\ [][NextPut]_vars

SpecFault == InitFault /\ [][NextFault]_vars

SpecRestore == InitStore /\ [][NextRestore]_vars

SpecUpload == InitUpload /\ [][NextUpload]_vars

SpecServe == InitServe /\ [][NextServe]_vars

SpecRace == InitRace /\ [][NextRace]_vars

SpecDb == InitDb /\ [][NextDb]_vars


(***************************************************************************)
(* Claims about the tree.                                                  *)
(***************************************************************************)
Levels == tree.val
RootHash == root(tree.val).val
Block(i) == data[i + 1]

\* C1: for every non-empty batch and every index i below the number of
\* blocks, proof(i) of the tree built over the batch is a proof and
\* verify(i, blocks[i], root, proof(i)) is true, odd level lengths included.
C1_OwnProofVerifies ==
    tree.tag = "Ok" =>
        \A i \in 0..(Len(data) - 1) :
            LET p == proof(Levels, i)
            IN  p.tag = "Ok" /\ verify(i, Block(i), RootHash, p.val)

\* C3: with the root and the proof of index i, verify(i, b, root, proof(i))
\* is false for every block b other than blocks[i].
C3_TamperedBlockRejected ==
    (/\ call.op = "verify"
     /\ call.from = call.index
     /\ call.block # Block(call.index)) => call.result = FALSE

C3_Witness ==
    /\ call.op = "verify"
    /\ call.from = call.index
    /\ call.block # Block(call.index)
    /\ Len(call.siblings) >= 2
    /\ call.result = FALSE

\* C4 as claimed: for valid indices i # j, verify(i, blocks[i], root,
\* proof(j)) is false, in every batch, equal blocks included.
C4_SwappedProofRejected ==
    (/\ call.op = "verify"
     /\ call.index < Len(data)
     /\ call.from # call.index
     /\ call.block = Block(call.index)) => call.result = FALSE

\* C4 as amended: for valid indices i # j with blocks[i] # blocks[j],
\* verify(i, blocks[i], root, proof(j)) is false.
C4_SwappedProofRejectedDistinct ==
    (/\ call.op = "verify"
     /\ call.index < Len(data)
     /\ call.from # call.index
     /\ call.block = Block(call.index)
     /\ Block(call.from) # Block(call.index)) => call.result = FALSE

C4_Witness ==
    /\ call.op = "verify"
    /\ call.index < Len(data)
    /\ call.from # call.index
    /\ call.block = Block(call.index)
    /\ Block(call.from) # Block(call.index)
    /\ Len(call.siblings) >= 2
    /\ call.result = FALSE

\* C8: level 0 is hash(block) per block in input order; each next level
\* takes the previous one two at a time, a full pair giving
\* hash(left || right) and a trailing single node giving hash(node);
\* construction stops at the first level of length one; one block has root
\* hash(block), three blocks have root hash(hash(h0 || h1) || hash(h2)).
C8_LevelConstruction ==
    tree.tag = "Ok" =>
        /\ Levels[1] = [i \in 1..Len(data) |-> [k |-> "h", v |-> data[i]]]
        /\ \A n \in 1..(Len(Levels) - 1) :
              /\ Len(Levels[n]) > 1
              /\ \A c \in 1..Len(Levels[n + 1]) :
                    Levels[n + 1][c] =
                        IF 2 * c <= Len(Levels[n])
                        THEN [k |-> "h", v |-> <<Levels[n][2 * c - 1], Levels[n][2 * c]>>]
                        ELSE [k |-> "h", v |-> <<Levels[n][2 * c - 1]>>]
        /\ Len(Levels[Len(Levels)]) = 1
        /\ Len(data) = 1 => RootHash = [k |-> "h", v |-> data[1]]
        /\ Len(data) = 3 =>
              RootHash =
                [k |-> "h", v |->
                    << [k |-> "h", v |-> << [k |-> "h", v |-> data[1]],
                                            [k |-> "h", v |-> data[2]] >>],
                       [k |-> "h", v |-> << [k |-> "h", v |-> data[3]] >>] >>]

C8_Witness ==
    /\ tree.tag = "Ok"
    /\ Len(data) = 5
    /\ Len(Levels) = 4
    /\ Levels[3][2] = [k |-> "h", v |-> <<Levels[2][3]>>]

\* C9: for every index below the leaf count, proof(index) returns a proof
\* and never fails or aborts; a level whose computed sibling index lies
\* outside the level contributes no sibling.
RECURSIVE C9_Siblings(_, _, _)
C9_Siblings(levels, n, i) ==
    IF n > Len(levels) - 1 THEN <<>>
    ELSE (IF i % 2 = 0
          THEN (IF i + 1 < Len(levels[n]) THEN <<levels[n][i + 2]>> ELSE <<>>)
          ELSE <<levels[n][i]>>)
         \o C9_Siblings(levels, n + 1, i \div 2)

C9_ProofNeverAborts ==
    (call.op = "proof" /\ call.index < Len(data)) =>
        call.result = Ok(C9_Siblings(Levels, 1, call.index))

\* C10: levels[0] has one digest per block, levels[k+1] has
\* ceil(len(levels[k]) / 2) digests, the last level has exactly one digest,
\* and root() returns that digest.
C10_LevelLengths ==
    tree.tag = "Ok" =>
        /\ Len(Levels[1]) = Len(data)
        /\ \A n \in 1..(Len(Levels) - 1) :
              /\ 2 * Len(Levels[n + 1]) >= Len(Levels[n])
              /\ 2 * (Len(Levels[n + 1]) - 1) < Len(Levels[n])
        /\ Len(Levels[Len(Levels)]) = 1
        /\ call.op = "root" => call.result = Ok(Levels[Len(Levels)][1])

C10_Witness ==
    /\ tree.tag = "Ok"
    /\ Len(data) = 5
    /\ <<Len(Levels[1]), Len(Levels[2]), Len(Levels[3]), Len(Levels[4])>> = <<5, 3, 2, 1>>
    /\ call.op = "root"
    /\ call.result.tag = "Ok"

\* C15: MerkleTree::new over no blocks fails with EmptyData and gives no
\* tree; over every non-empty sequence of blocks it gives a tree.
C15_NewEmptyData ==
    tree # Err("unbuilt") =>
        IF data = <<>> THEN tree = Err("EmptyData") ELSE tree.tag = "Ok"

C15_Witness ==
    /\ data = <<>>
    /\ tree = Err("EmptyData")

\* C16: on a tree of n leaves proof(index) fails with InvalidIndex for every
\* index >= n (n and n + 1 among them), and the tree is the tree that was
\* built.
C16_InvalidIndex ==
    (call.op = "proof" /\ call.index >= Len(data)) =>
        /\ call.result = Err("InvalidIndex")
        /\ tree = new(data)

C16_Witness ==
    /\ call.op = "proof"
    /\ Len(data) = 3
    /\ call.index \in {Len(data), Len(data) + 1}
    /\ call.result = Err("InvalidIndex")

\* C27: verify uses only the low len(proof) bits of the index: the verdict
\* of verify(i, block, root, proof) is that of verify(i mod 2^len(proof),
\* block, root, proof), whether or not i is below the leaf count of the
\* tree the root came from.
C27_VerifyLowBits ==
    call.op = "verify" =>
        call.result =
            (verify_fold(call.index % Pow2(Len(call.siblings)), hash(call.block),
                         call.siblings, 1) = RootHash)

C27_Witness ==
    /\ call.op = "verify"
    /\ call.index >= Len(data)
    /\ call.index >= Pow2(Len(call.siblings))
    /\ Len(call.siblings) >= 1
    /\ call.result = TRUE

(***************************************************************************)
(* Claims about the store.                                                 *)
(***************************************************************************)
\* C5: the root identifies the batch: two batches that differ in the number
\* of blocks or in any block never have the same root, so two store_files
\* calls that write into the same root directory carry the same files.
C5_RootIdentifiesBatch ==
    \A p, q \in puts : p.root_hash = q.root_hash => p.files = q.files

\* C7: after store_files(batch) has returned root R, for every index i below
\* the batch length get_file(R, i) is batch[i], get_tree(R).proof(i) is a
\* proof, and verify(i, batch[i], R, that proof) is true.
C7_StoreRoundTrip ==
    (scall.op = "store_files" /\ scall.result.tag = "Ok") =>
        \A i \in 0..(Len(scall.files) - 1) :
            LET R == scall.result.val
                t == get_tree(fs, R)
                p == proof(t.val, i)
            IN  /\ FileStore_get_file(fs, R, i) = Ok(scall.files[i + 1])
                /\ t.tag = "Ok"
                /\ p.tag = "Ok"
                /\ verify(i, scall.files[i + 1], root(t.val).val, p.val)
                /\ R = hex_encode(<<root(t.val).val>>)

\* C17: store_files is idempotent: storing the batch of a successful call
\* once more returns the same root and leaves the directories, the indexed
\* files and tree.json as the first call left them.
C17_StoreIdempotent ==
    (scall.op = "store_files" /\ scall.result.tag = "Ok") =>
        LET again == store_files(fs, scall.files)
        IN  /\ again.result = scall.result
            /\ again.fs = fs

C17_Witness ==
    /\ scall.op = "store_files"
    /\ scall.result.tag = "Ok"
    /\ Len(scall.files) >= 2
    /\ scall.before = fs
    /\ store_files(fs, scall.files).fs = fs

\* C19: in every state of the store that store_files calls lead to, every
\* root directory that holds a tree.json is named by the hex text of that
\* tree's root and holds, for every index of the tree, a file named by the
\* index whose content hashes to the leaf digest at that index.
C19_DirectoryInvariant ==
    \A dir \in fs.dirs :
        LET t == get_tree(fs, dir)
        IN  t.tag = "Ok" =>
                /\ dir = hex_encode(<<root(t.val).val>>)
                /\ \A i \in 0..(Len(t.val[1]) - 1) :
                       LET f == FileStore_get_file(fs, dir, i)
                       IN  f.tag = "Ok" /\ hash(f.val) = t.val[1][i + 1]


(***************************************************************************)
\* The files of a directory by name, and the files store_files leaves in the
\* directory of a batch: the blocks under their indices and the tree.
DirFiles(store, dir) ==
    [name \in {x[2] : x \in {y \in DOMAIN store.files : y[1] = dir}} |->
        store.files[<<dir, name>>]]

BatchFiles(files) ==
    [name \in {ToString(i) : i \in 0..(Len(files) - 1)} \cup {"tree.json"} |->
        IF name = "tree.json"
        THEN <<[k |-> "json", v |-> new(files).val]>>
        ELSE files[(CHOOSE i \in 0..(Len(files) - 1) : ToString(i) = name) + 1]]

\* The store after the tasks' batches were stored one after the other.
RECURSIVE StoreAll(_, _)
StoreAll(store, c) ==
    IF c > MaxConns THEN store
    ELSE StoreAll(store_files(store, conns[c].sv.res).fs, c + 1)

\* C18: store_files calls for batches with different roots, run on separate
\* tasks with their writes interleaved in any order, leave the store as
\* running them one after the other does: each root directory holds exactly
\* the indexed files and the tree of its own batch.
C18_ConcurrentPuts ==
    (/\ \A c \in Conns : conns[c].spc = "done"
     /\ \A c, d \in Conns : c # d => conns[c].sv.root_hash # conns[d].sv.root_hash) =>
        /\ fs = StoreAll(EmptyStore, 1)
        /\ \A c \in Conns :
              /\ conns[c].sres = "Ok"
              /\ conns[c].sv.root_hash \in fs.dirs
              /\ DirFiles(fs, conns[c].sv.root_hash) = BatchFiles(conns[c].sv.res)

C18_Witness ==
    /\ \A c \in Conns : conns[c].spc = "done" /\ conns[c].sv.overlap
    /\ \A c, d \in Conns : c # d => conns[c].sv.root_hash # conns[d].sv.root_hash
    /\ \E c \in Conns : Len(conns[c].sv.res) >= 2
    /\ fs = StoreAll(EmptyStore, 1)

(***************************************************************************)
(* Claims about the wire.                                                  *)
(***************************************************************************)
\* The batches the clients uploaded under a root.
SentUnder(root_hash) == {b.files : b \in {x \in sent : x.root_hash = root_hash}}

\* C6: after a client has uploaded a batch and the server has stored it, a
\* download of (root of the batch, i), i in range, completes with the
\* client receiving exactly blocks[i] and a proof that verifies against the
\* root the client computed at upload time.
C6_WireRoundTrip ==
    \A c \in Conns :
        \A files \in SentUnder(conns[c].root_hash) :
            (/\ conns[c].kind = "download"
             /\ conns[c].stored
             /\ conns[c].index < Len(files)
             /\ conns[c].cpc = "done") => conns[c].cres = Ok(files[conns[c].index + 1])

\* C11: a failed upload has no client-side effect: when the server task of
\* an upload has ended without the batch being stored, the client has
\* neither recorded the root with the file names nor deleted the source
\* files.
C11_FailedUploadNoEffect ==
    \A c \in Conns :
        (/\ conns[c].kind = "upload"
         /\ conns[c].spc = "done"
         /\ get_tree(fs, conns[c].root_hash).tag # "Ok") =>
            /\ ~conns[c].persisted
            /\ ~conns[c].removed

\* C13: however the bytes of an upload are split into segments, the server
\* consumes the tag, the count and every length-prefixed file, nothing less
\* and nothing more, and hands store_files the batch send_files was given,
\* in order.
C13_UploadFraming ==
    \A c \in Conns :
        (/\ conns[c].kind = "upload"
         /\ conns[c].spc = "done"
         /\ conns[c].sres # "Killed") =>
            /\ conns[c].c2s = <<>>
            /\ conns[c].sv.res = conns[c].files
            /\ conns[c].sv.root_hash = conns[c].root_hash

\* C14: an error raised while serving one connection ends only that
\* connection's task: no other task is ended by it, the listener stays up,
\* and no later connection is refused.
C14_FaultIsolation ==
    \A c \in Conns :
        /\ conns[c].sres \notin {"Abort", "Killed"}
        /\ conns[c].kind # "refused"

\* C20: store_files on an empty batch fails with the empty-batch error and
\* changes nothing in the store, also when the empty batch comes from an
\* upload frame whose file count is 0: no directory, no indexed file and no
\* tree file is created.
C20_EmptyBatch ==
    /\ [](store_files(fs, <<>>) = [fs |-> fs, result |-> Err("EmptyData")])
    /\ [][\A c \in Conns :
            (/\ conns[c].spc = "store"
             /\ conns[c].sv.res = <<>>
             /\ conns'[c] # conns[c]
             /\ conns'[c].sres # "Killed") =>
                /\ fs' = fs
                /\ conns'[c].spc = "done"
                /\ conns'[c].sres = "EmptyData"]_vars

C20_Witness ==
    \E c \in Conns :
        /\ conns[c].kind = "raw"
        /\ conns[c].spc = "done"
        /\ conns[c].sres = "EmptyData"
        /\ conns[c].sv.count = 0
        /\ conns[c].c2s = <<>>
        /\ fs.dirs # {}

\* The root the caller of get_file trusts, as the 32 bytes get_file decodes.
Trusted(cn) == try_into_hash(hex_decode(cn.root_hash).val).val

StoredFile(cn) == fs_read(fs, cn.root_hash, ToString(cn.index))
StoredProof(cn) == proof(get_tree(fs, cn.root_hash).val, cn.index)

\* The task answered the request the client wrote.
Served(cn) ==
    /\ cn.kind = "download"
    /\ cn.spc = "done"
    /\ cn.sres = "Ok"
    /\ cn.sv.root_hash = cn.root_hash

\* Everything the task has written while the client has read nothing.
Response(cn) ==
    LET size == to_be_bytes(ByteLen(StoredFile(cn).val))
    IN  IF cn.spc = "send_file" THEN size
        ELSE IF cn.spc = "send_proof" THEN size \o StoredFile(cn).val
        ELSE IF Served(cn) THEN size \o StoredFile(cn).val \o StoredProof(cn).val
        ELSE <<>>

\* C22: within one connection the server handles one command: it writes
\* the first byte of the response only after it has consumed the whole
\* request (nothing is written for an upload), the response is the file
\* length, the file bytes and the proof digests in that order, the
\* connection is closed when the command has been handled, and the task
\* reads and writes nothing after that.
C22_RequestThenResponse ==
    /\ [](\A c \in Conns :
            LET cn == conns[c]
            IN  /\ (cn.s2c # <<>> \/ cn.spc \in {"send_size", "send_file", "send_proof"})
                     => /\ cn.kind = "download"
                        /\ cn.c2s = <<>>
                        /\ cn.sv.root_hash = cn.root_hash
                        /\ cn.sv.index = cn.index
                /\ cn.cpc = "recv_size" => cn.s2c = Response(cn)
                /\ cn.spc = "done" => cn.sClosed)
    /\ [][\A c \in Conns :
            conns[c].spc = "done" =>
                /\ conns'[c].spc = "done"
                /\ conns'[c].c2s = conns[c].c2s
                /\ ByteLen(conns'[c].s2c) <= ByteLen(conns[c].s2c)]_vars

C22_Witness ==
    \E c \in Conns :
        /\ Served(conns[c])
        /\ conns[c].cpc = "recv_size"
        /\ conns[c].sClosed
        /\ conns[c].c2s = <<>>
        /\ Len(StoredProof(conns[c]).val) >= 1
        /\ conns[c].s2c = to_be_bytes(ByteLen(StoredFile(conns[c]).val))
                            \o StoredFile(conns[c]).val \o StoredProof(conns[c]).val

\* The request names something the store does not hold: the directory, the
\* indexed file or the tree is missing, or the index is outside the tree.
Missing(cn) ==
    \/ StoredFile(cn).tag # "Ok"
    \/ get_tree(fs, cn.root_hash).tag # "Ok"
    \/ cn.index >= Len(get_tree(fs, cn.root_hash).val[1])

\* C24: when a download names a root directory, an indexed file or a tree
\* that is missing, or an index outside the tree, the server writes no
\* response byte, the task ends with an error once it has read the request
\* and the socket is dropped, the store stays as it was, and the client's
\* get_file returns an error and no file.
C24_MissingFailsClean ==
    /\ [](\A c \in Conns :
            LET cn == conns[c]
            IN  (cn.kind = "download" /\ Missing(cn)) =>
                    /\ cn.s2c = <<>>
                    /\ cn.spc \notin {"send_size", "send_file", "send_proof"}
                    /\ cn.spc = "done" => cn.sClosed
                    /\ (cn.spc = "done" /\ cn.sv.root_hash = cn.root_hash)
                           => cn.sres = "Err"
                    /\ cn.cpc = "done" =>
                           cn.cres.tag = "Err" /\ cn.written = Err("none"))
    /\ [][(\A c \in Conns : conns'[c].kind \in {"none", "download"}) => fs' = fs]_vars

C24_Witness ==
    \E c \in Conns :
        /\ conns[c].kind = "download"
        /\ get_tree(fs, conns[c].root_hash).tag = "Ok"
        /\ conns[c].index >= Len(get_tree(fs, conns[c].root_hash).val[1])
        /\ conns[c].sv.root_hash = conns[c].root_hash
        /\ conns[c].sv.index = conns[c].index
        /\ conns[c].spc = "done"
        /\ conns[c].sres = "Err"
        /\ conns[c].s2c = <<>>
        /\ conns[c].cpc = "done"
        /\ conns[c].cres = Err("UnexpectedEof")

\* The client, the server is inside a read that cannot return: the bytes it
\* asks for are not there and the other end has not closed.
ClientWaits(cn) ==
    \/ cn.cpc = "recv_size" /\ ~CanRead(cn.s2c, cn.sClosed, 8)
    \/ cn.cpc = "recv_file" /\ ~CanRead(cn.s2c, cn.sClosed, cn.size)
    \/ cn.cpc = "recv_proof" /\ ~cn.sClosed
ServerWaits(cn) ==
    \/ cn.spc = "read_command" /\ cn.c2s = <<>> /\ ~cn.cClosed
    \/ cn.spc = "read_root" /\ ~CanRead(cn.c2s, cn.cClosed, 64)
    \/ cn.spc = "read_index" /\ ~CanRead(cn.c2s, cn.cClosed, 8)

\* C25: every download call returns: for any root-hash string, of any
\* length, and any index, the client and the server never end up each
\* waiting for bytes from the other.
C25_NoMutualWait ==
    \A c \in Conns :
        ~(conns[c].kind = "download" /\ ClientWaits(conns[c]) /\ ServerWaits(conns[c]))

\* C26: a download served while a store_files call for the same root is in
\* flight on another connection either fails or returns a whole block of
\* a batch uploaded under the root, at the index asked for, with a proof
\* that verifies against the root: no response is built from a partly
\* written batch.
C26_NoPartialResponse ==
    \A c \in Conns :
        LET cn == conns[c]
        IN  Served(cn) =>
                /\ \E files \in SentUnder(cn.root_hash) :
                       /\ cn.index < Len(files)
                       /\ cn.sv.file = files[cn.index + 1]
                /\ verify_fold(cn.index, hash(cn.sv.file), cn.sv.proof, 1) = Trusted(cn)

\* C23: the local index survives across client invocations: after an
\* upload succeeded in one invocation, a later invocation resolves
\* get_index(root, filename) to the position of the file in the uploaded
\* batch, and list shows the root with its file names.
C23_IndexSurvives ==
    \A u \in db.uploaded :
        /\ (/\ db.last.op = "download"
            /\ db.last.root_hash = u.root_hash
            /\ \E i \in 1..Len(u.files) : u.files[i] = db.last.file_name)
              => /\ db.last.index # None
                 /\ u.files[db.last.index[1] + 1] = db.last.file_name
        /\ db.last.op = "list"
              => /\ u.root_hash \in DOMAIN db.last.uploads
                 /\ db.last.uploads[u.root_hash] = u.files

\* C12: the client writes a downloaded file to its destination only if
\* verify(index, file, trusted root, proof) was true for the bytes received;
\* when verification fails get_file returns an error and nothing is written.
C12_WriteOnlyVerified ==
    \A c \in Conns :
        LET cn == conns[c]
        IN  /\ cn.written.tag = "Ok" =>
                  /\ cn.cres = Ok(cn.written.val)
                  /\ cn.written.val = cn.file
                  /\ verify_fold(cn.index, hash(cn.file), cn.siblings, 1) = Trusted(cn)
            /\ cn.cres.tag = "Err" => cn.written = Err("none")
            /\ (/\ cn.kind = "download"
                /\ cn.cpc = "done"
                /\ cn.siblings # <<>>
                /\ verify_fold(cn.index, hash(cn.file), cn.siblings, 1) # Trusted(cn)) =>
                  /\ cn.cres = Err("Invalid proof")
                  /\ cn.written = Err("none")

C12_Witness ==
    /\ conns[1].cpc = "done"
    /\ conns[1].written = Ok(conns[1].file)
    /\ Len(conns[1].siblings) >= 1

\* C2: whenever get_file(root, i) returns Ok(file), for an index i of the
\* batch whose root is root, the file is block i of that batch, whatever
\* file bytes and proof bytes the server put on the wire.
C2_DownloadAuthentic ==
    \A c \in Conns :
        \A files \in SentUnder(conns[c].root_hash) :
            (/\ conns[c].kind = "download"
             /\ conns[c].cpc = "done"
             /\ conns[c].cres.tag = "Ok"
             /\ conns[c].index < Len(files)) => conns[c].cres.val = files[conns[c].index + 1]

====
